---- MODULE Spec2Model ----
\* go-callgraph-neo4j: the collector (CollectTypes, CollectCallGraph,
\* CollectImplementsFromPackages), the Neo4j loader and main's sequence.
\* Go strings are sequences of one-character strings, so that concatenation,
\* strings.HasPrefix and strings.Index are computed as the code computes them.
EXTENDS Integers, Sequences, FiniteSets, TLC

VARIABLES
    pfx,      \* SpecPrefix: one isProjectPackage query and its answer
    kq,       \* SpecKeys: two functions and the keys each pass computes
    prog,     \* the loaded, type-checked program (packages.Load result)
    clean,    \* the --clean flag of the current run of main
    pc,       \* position of main
    run,      \* which run of main over the unchanged project this is
    c,        \* the Collector: RootModule, Packages, Structs, ..., Implements
    sink,     \* the Neo4j database: nodes, rels, next free id
    pre,      \* sink as it was before the last loader operation
    sink0,    \* sink as the first run found it
    sink1,    \* sink at the end of the previous run
    calls1,   \* c.Calls of the previous run
    ld        \* SpecLoad: the statements the loader issued, and how the run ended

vars == <<pfx, kq, prog, clean, pc, run, c, sink, pre, sink0, sink1, calls1, ld>>

\* ---------------------------------------------------------------- bounds

MaxPathLen == 3
MaxRuns == 2
MaxLine == 2
MaxAllocs == 2
MaxBatch == 2

\* ---------------------------------------------------------------- strings

\* a nil *ssa.Package: no import path
NoPkg == <<>>

Dot == <<".">>

\* strings.HasPrefix(s, prefix)
HasPrefix(s, prefix) ==
    /\ Len(s) >= Len(prefix)
    /\ SubSeq(s, 1, Len(prefix)) = prefix

\* strings.Index(s, substr): 0-based index of the first occurrence, -1 if none
Index(s, substr) ==
    LET hits == { i \in 0..(Len(s) - Len(substr)) :
                      SubSeq(s, i + 1, i + Len(substr)) = substr }
    IN  IF hits = {} THEN -1
        ELSE CHOOSE i \in hits : \A j \in hits : i <= j

RECURSIVE Itoa(_)
\* fmt's %d of a non-negative int
Itoa(n) ==
    LET digit == <<"0", "1", "2", "3", "4", "5", "6", "7", "8", "9">>
    IN  IF n < 10 THEN <<digit[n + 1]>>
        ELSE Itoa(n \div 10) \o <<digit[(n % 10) + 1]>>

UpperCase == {"A", "B", "C", "E", "G", "H", "I", "P", "R", "S", "T", "W"}

\* types.Object.Exported / token.IsExported: the name starts with a capital
IsExported(name) == name[1] \in UpperCase

\* -------------------------------------------------------------- collector

\* Collector.isProjectPackage
isProjectPackage(RootModule, pkgPath) ==
    HasPrefix(pkgPath, RootModule)

\* Collector.relPath
relPath(RootModule, fullPath) ==
    LET idx == Index(fullPath, RootModule)
    IN  IF idx >= 0
        THEN LET rest == SubSeq(fullPath, idx + Len(RootModule) + 1, Len(fullPath))
             IN  IF Len(rest) > 0 /\ rest[1] = "/"
                 THEN SubSeq(rest, 2, Len(rest))
                 ELSE rest
        ELSE fullPath

\* ------------------------------------------------------------------ keys

\* a declared function or method as go/types sees it: the package whose scope
\* (or whose named type) holds it, the receiver's named type ("" for a free
\* function), whether the receiver is a pointer, and the name
NoRecv == <<>>

\* FuncNode.FullName as the declaration scan computes it
declScanKey(f) ==
    IF f.recv # NoRecv
    THEN f.pkg \o Dot \o f.recv \o Dot \o f.name
    ELSE f.pkg \o Dot \o f.name

\* FuncNode.FullName as the named-type method scan computes it: pkgPath is the
\* package being visited, typeName the scope name of the named type
methodScanKey(pkgPath, typeName, methodName) ==
    pkgPath \o Dot \o typeName \o Dot \o methodName

\* ssa.Function.String() of a function without a package (a wrapper)
ssaString(fn) ==
    IF fn.recv # NoRecv
    THEN <<"(">> \o (IF fn.ptr THEN <<"*">> ELSE <<>>) \o fn.recvPkg \o Dot
             \o fn.recv \o <<")">> \o Dot \o fn.name
    ELSE fn.name

\* a mutant: the call-graph pass keeps the pointer star of the receiver
buildSSAFuncNameStar(fn) ==
    IF fn.Pkg = NoPkg THEN ssaString(fn)
    ELSE IF fn.recv # NoRecv
         THEN fn.Pkg \o Dot \o (IF fn.ptr THEN <<"*">> ELSE <<>>) \o fn.recv
                  \o Dot \o fn.name
         ELSE fn.Pkg \o Dot \o fn.name

\* buildSSAFuncName
buildSSAFuncName(fn) ==
    IF fn.Pkg = NoPkg THEN ssaString(fn)
    ELSE IF fn.recv # NoRecv
         THEN fn.Pkg \o Dot \o fn.recv \o Dot \o fn.name
         ELSE fn.Pkg \o Dot \o fn.name

\* the ssa.Function built for a declared function or method
ssaDeclared(f) ==
    [Pkg |-> f.pkg, recvPkg |-> f.pkg, recv |-> f.recv, ptr |-> f.ptr,
     name |-> f.name, exported |-> f.exported, synthetic |-> FALSE]

\* the ssa.Function built for the i-th function literal of a declared
\* function: it belongs to the parent's package, is named parent$i and has no
\* types.Object
ssaAnon(f, i) ==
    [Pkg |-> f.pkg, recvPkg |-> f.pkg, recv |-> NoRecv, ptr |-> FALSE,
     name |-> f.name \o <<"$">> \o Itoa(i), exported |-> FALSE, synthetic |-> FALSE]

\* ------------------------------------------------------------ the program

\* maps (Go map[string]*T) are functions on the set of their keys
EmptyMap == <<>>

Put(m, k, v) == [x \in (DOMAIN m) \cup {k} |-> IF x = k THEN v ELSE m[x]]

\* m with every <<key, value>> of entries written; the keys of entries differ
PutAll(m, entries) ==
    [x \in (DOMAIN m) \cup { e[1] : e \in entries } |->
        IF \E e \in entries : e[1] = x
        THEN (CHOOSE e \in entries : e[1] = x)[2]
        ELSE m[x]]

Range(s) == { s[i] : i \in DOMAIN s }

\* the sequences that list every element of the finite set S once
Orders(S) ==
    { s \in [1..Cardinality(S) -> S] : \A i, j \in DOMAIN s : s[i] = s[j] => i = j }

\* identifiers and import paths of the analysed programs
ModRoot == <<"m">>
PkgApp == <<"m", "/", "a">>
PkgDot == <<"m", "/", "a", ".", "b">>
PkgExt == <<"x">>

nHandle == <<"H", "a", "n", "d", "l", "e">>
nClose == <<"C", "l", "o", "s", "e">>
nRun == <<"R", "u", "n">>
nPrint == <<"P", "r", "i", "n", "t">>
nHelp == <<"h", "e", "l", "p">>
nF == <<"f">>

\* the source file of a package's declarations, as an absolute path would
\* contain the import path
FileOf(pkgPath) == <<"/">> \o pkgPath \o <<"/", "s">>

\* a method of a named type: name, pointer receiver or not, line
Method(name, ptr, line) == [name |-> name, ptr |-> ptr, line |-> line]

\* a package-scope type name: kind is the kind of its underlying type
TypeDecl(pkg, name, kind, methods, fields, line) ==
    [pkg |-> pkg, name |-> name, kind |-> kind, methods |-> methods,
     fields |-> fields, file |-> FileOf(pkg), line |-> line,
     exported |-> IsExported(name)]

\* a package-scope function
FuncDecl(pkg, name, line) ==
    [pkg |-> pkg, recv |-> NoRecv, ptr |-> FALSE, name |-> name,
     exported |-> IsExported(name), file |-> FileOf(pkg), line |-> line]

\* the declaration of method m of named type t
MethodDecl(t, m) ==
    [pkg |-> t.pkg, recv |-> t.name, ptr |-> m.ptr, name |-> m.name,
     exported |-> IsExported(m.name), file |-> t.file, line |-> m.line]

\* a concrete type that can be stored in an interface value: T or *T
Concrete(t, ptr) == [pkg |-> t.pkg, name |-> t.name, ptr |-> ptr]

\* go/types method sets: a value's holds the value-receiver methods, a
\* pointer's holds them all
MethodSet(t, ptr) ==
    { m.name : m \in { x \in t.methods : ptr \/ ~x.ptr } }

\* types.Implements(T, I) for a struct type (ptr: *T) and an interface
Implements(t, ptr, iface) ==
    { m.name : m \in iface.methods } \subseteq MethodSet(t, ptr)

\* ------------------------------------------------------- SSA and the VTA graph

\* the wrapper ssa builds for (*T).m when m has a value receiver: a synthetic
\* function shared by all packages (Pkg is nil) whose body calls T.m
ssaWrapper(t, m) ==
    [Pkg |-> NoPkg, recvPkg |-> t.pkg, recv |-> t.name, ptr |-> TRUE,
     name |-> m.name, exported |-> IsExported(m.name), synthetic |-> TRUE]

\* the declared method a wrapper calls
wrapped(fn) == [fn EXCEPT !.Pkg = fn.recvPkg, !.ptr = FALSE, !.synthetic = FALSE]

\* a call instruction's position
Site(file, line, invoke) ==
    [has |-> TRUE, file |-> file, line |-> line, invoke |-> invoke]

TypesOf(p) == Range(p.types)

TypeOfConcrete(p, ct) ==
    CHOOSE t \in TypesOf(p) : t.pkg = ct.pkg /\ t.name = ct.name

\* prog.MethodValue: the function a dynamic call of method name runs when the
\* interface holds a value of concrete type ct
MethodValue(p, ct, name) ==
    LET t == TypeOfConcrete(p, ct)
        m == CHOOSE x \in t.methods : x.name = name
    IN  IF ct.ptr /\ ~m.ptr THEN ssaWrapper(t, m) ELSE ssaDeclared(MethodDecl(t, m))

\* ssautil.AllFunctions: the declared functions and methods and the wrappers
\* of the method sets
AllFunctions(p) ==
    { ssaDeclared(f) : f \in p.funcs }
    \cup p.anon
    \cup { ssaDeclared(MethodDecl(t, m)) :
             <<t, m>> \in { x \in TypesOf(p) \X UNION { t.methods : t \in TypesOf(p) } :
                             x[1].kind # "iface" /\ x[2] \in x[1].methods } }
    \cup { ssaWrapper(x[1], x[2]) :
             x \in { y \in TypesOf(p) \X UNION { t.methods : t \in TypesOf(p) } :
                       y[1].kind # "iface" /\ y[2] \in y[1].methods /\ ~y[2].ptr } }

FlowVars(p) ==
    { a[1] : a \in p.allocs } \cup { f[1] : f \in p.flows } \cup { f[2] : f \in p.flows }
        \cup { i.recv : i \in { j \in p.instrs : j.mode \in {"invoke", "value"} } }
        \cup { a[1] : a \in p.fnvals }

RECURSIVE Propagate(_, _)
\* vta's propagation: every node's type set grows by the sets of the nodes
\* that flow into it, until nothing changes
Propagate(p, ts) ==
    LET step == [v \in DOMAIN ts |->
                    ts[v] \cup UNION { ts[f[1]] : f \in { g \in p.flows : g[2] = v } }]
    IN  IF step = ts THEN ts ELSE Propagate(p, step)

\* the concrete types VTA finds may reach each flow node
TypeSets(p) ==
    Propagate(p, [v \in FlowVars(p) |-> { a[2] : a \in { b \in p.allocs : b[1] = v } }])

\* the functions VTA finds may reach each flow node as a function value
FuncSets(p) ==
    Propagate(p, [v \in FlowVars(p) |-> { a[2] : a \in { b \in p.fnvals : b[1] = v } }])

Provides(p, ct, name) == name \in MethodSet(TypeOfConcrete(p, ct), ct.ptr)

\* vta.CallGraph: one edge per static call, one edge per dynamic call and
\* concrete type of the receiver's type set that has the method, one edge per
\* call of a function value and function of the value's set, and the call in
\* each wrapper's body
VTAEdges(p) ==
    { [caller |-> i.caller, callee |-> i.callee, site |-> Site(i.file, i.line, FALSE),
       n |-> i.n] : i \in { j \in p.instrs : j.mode = "call" } }
    \cup
    { [caller |-> x[1].caller, callee |-> MethodValue(p, x[2], x[1].method),
       site |-> Site(x[1].file, x[1].line, TRUE), n |-> x[1].n] :
         x \in { y \in { j \in p.instrs : j.mode = "invoke" }
                        \X { a[2] : a \in p.allocs } :
                   /\ y[2] \in TypeSets(p)[y[1].recv]
                   /\ Provides(p, y[2], y[1].method) } }
    \cup
    { [caller |-> x[1].caller, callee |-> ssaDeclared(x[2]),
       site |-> Site(x[1].file, x[1].line, FALSE), n |-> x[1].n] :
         x \in { y \in { j \in p.instrs : j.mode = "value" } \X { a[2] : a \in p.fnvals } :
                   y[2] \in FuncSets(p)[y[1].recv] } }
    \cup
    { [caller |-> w, callee |-> wrapped(w), site |-> Site(<<>>, 0, FALSE), n |-> 0] :
         w \in { f \in AllFunctions(p) : f.synthetic } }

\* ------------------------------------------------------------ CollectTypes

\* named.NumMethods()/Method(i): the methods declared with the named type as
\* receiver base; a named interface type has none
DeclaredMethods(t) == IF t.kind = "iface" THEN {} ELSE t.methods

FuncNode(name, fullName, pkg, file, line, exported, receiver, isMethod) ==
    [Name |-> name, FullName |-> fullName, Package |-> pkg, File |-> file,
     Line |-> line, Exported |-> exported, Receiver |-> receiver,
     IsMethod |-> isMethod]

\* the FuncNode of the declaration scan for a *types.Func of the scope
declScanNode(root, f) ==
    FuncNode(f.name, declScanKey(f), f.pkg, relPath(root, f.file), f.line,
             f.exported, f.recv, f.recv # NoRecv)

\* the FuncNode of the method scan for method m of the named type t
methodScanNode(root, t, m) ==
    FuncNode(m.name, methodScanKey(t.pkg, t.name, m.name), t.pkg,
             relPath(root, t.file), m.line, IsExported(m.name), t.name, TRUE)

\* the callback of packages.Visit in CollectTypes, for one package
visitTypes(p, col, pkg) ==
    IF ~isProjectPackage(col.RootModule, pkg.PkgPath) THEN col
    ELSE
    LET root == col.RootModule
        here == { t \in TypesOf(p) : t.pkg = pkg.PkgPath }
        structs == { <<t.pkg \o Dot \o t.name,
                       [Name |-> t.name, Package |-> t.pkg,
                        File |-> relPath(root, t.file), Line |-> t.line,
                        Exported |-> t.exported, FieldCount |-> t.fields]>> :
                       t \in { x \in here : x.kind = "struct" } }
        ifaces == { <<t.pkg \o Dot \o t.name,
                      [Name |-> t.name, Package |-> t.pkg,
                       File |-> relPath(root, t.file), Line |-> t.line,
                       Exported |-> t.exported,
                       Methods |-> Cardinality(t.methods)]>> :
                      t \in { x \in here : x.kind = "iface" } }
        declared == { <<declScanKey(f), declScanNode(root, f)>> :
                        f \in { g \in p.funcs : g.pkg = pkg.PkgPath } }
        methods == { <<methodScanKey(x[1].pkg, x[1].name, x[2].name),
                       methodScanNode(root, x[1], x[2])>> :
                       x \in { y \in here \X UNION { DeclaredMethods(t) : t \in here } :
                                 y[2] \in DeclaredMethods(y[1]) } }
    IN  [col EXCEPT
            !.Packages = Put(@, pkg.PkgPath,
                             [ImportPath |-> pkg.PkgPath, Name |-> pkg.Name,
                              Dir |-> relPath(root, pkg.PkgPath)]),
            !.Structs = PutAll(@, structs),
            !.Interfaces = PutAll(@, ifaces),
            !.Funcs = PutAll(PutAll(@, declared), methods)]

RECURSIVE visitAllTypes(_, _, _)
visitAllTypes(p, col, pkgs) ==
    IF pkgs = <<>> THEN col
    ELSE visitAllTypes(p, visitTypes(p, col, Head(pkgs)), Tail(pkgs))

\* Collector.CollectTypes
CollectTypes(p, col) == visitAllTypes(p, col, p.pkgs)

\* ---------------------------------------------------------- CollectCallGraph

\* the guards of the edge callback: both functions have a package and one of
\* the two packages is the project's
keepsEdge(root, e) ==
    /\ ~(e.caller.Pkg = NoPkg \/ e.callee.Pkg = NoPkg)
    /\ ~(~isProjectPackage(root, e.caller.Pkg) /\ ~isProjectPackage(root, e.callee.Pkg))

\* the site string of an edge
siteString(root, e) ==
    IF e.site.has
    THEN relPath(root, e.site.file) \o <<":">> \o Itoa(e.site.line)
    ELSE <<>>

CallEdge(caller, callee, dynamic, site) ==
    [CallerFullName |-> caller, CalleeFullName |-> callee,
     IsDynamic |-> dynamic, Site |-> site]

\* a mutant: the entry is written whether or not the key is already present
registerFuncAlways(root, funcs, fn, fullName) ==
    IF isProjectPackage(root, fn.Pkg)
    THEN [k \in DOMAIN funcs \cup {fullName} |->
             IF k = fullName
             THEN [Name |-> fn.name, FullName |-> fullName, Package |-> fn.Pkg,
                   File |-> <<>>, Line |-> 0, Exported |-> fn.exported,
                   Receiver |-> NoRecv, IsMethod |-> FALSE]
             ELSE funcs[k]]
    ELSE funcs

\* the minimal FuncNode registered for a function first seen in this pass
minimalNode(fn, fullName) ==
    FuncNode(fn.name, fullName, fn.Pkg, <<>>, 0,
             (~fn.synthetic) /\ fn.exported, NoRecv, FALSE)

registerFunc(root, funcs, fn, fullName) ==
    IF fullName \notin DOMAIN funcs /\ isProjectPackage(root, fn.Pkg)
    THEN Put(funcs, fullName, minimalNode(fn, fullName))
    ELSE funcs

\* the callback of callgraph.GraphVisitEdges, for one edge
visitEdge(col, e) ==
    IF ~keepsEdge(col.RootModule, e) THEN col
    ELSE
    LET callerName == buildSSAFuncName(e.caller)
        calleeName == buildSSAFuncName(e.callee)
    IN  [col EXCEPT
            !.Calls = Append(@, CallEdge(callerName, calleeName,
                                         e.site.has /\ e.site.invoke,
                                         siteString(col.RootModule, e))),
            !.Funcs = registerFunc(col.RootModule,
                                   registerFunc(col.RootModule, @, e.caller, callerName),
                                   e.callee, calleeName)]

RECURSIVE visitEdges(_, _)
visitEdges(col, edges) ==
    IF edges = <<>> THEN col
    ELSE visitEdges(visitEdge(col, Head(edges)), Tail(edges))

\* the orders in which GraphVisitEdges may hand the edges to the callback. It
\* walks the graph's node map, whose iteration order Go leaves open, so any
\* order of the edges can occur. A callback that returns at one of its guards
\* changes nothing, so where those edges stand in the order is immaterial: they
\* are put first, in one fixed order, and the others follow in every order.
VisitOrders(root, edges) ==
    LET kept == { e \in edges : keepsEdge(root, e) }
        first == CHOOSE s \in Orders(edges \ kept) : TRUE
    IN  { first \o s : s \in Orders(kept) }

\* --------------------------------------------- CollectImplementsFromPackages

\* the project's type names of one underlying kind, in the order packages.Visit
\* and scope.Names() list them, as the records the function collects
scanTypes(p, root, kind) ==
    LET picked == SelectSeq(p.types,
                            LAMBDA t : /\ isProjectPackage(root, t.pkg)
                                       /\ t.kind = kind
                                       /\ (kind = "iface" => Cardinality(t.methods) > 0))
    IN  [i \in DOMAIN picked |->
            [key |-> picked[i].pkg \o Dot \o picked[i].name, typ |-> picked[i],
             name |-> picked[i].name, pkg |-> picked[i].pkg]]

ImplementsEdge(struct, iface) == [Struct |-> struct, Interface |-> iface]

\* a mutant: the pointer check runs even when the value check has succeeded
checkPairNoContinue(st, concrete, iface) ==
    LET edgeKey == concrete.key \o <<"-", ">">> \o iface.key
        edge == ImplementsEdge(concrete.key, iface.key)
        byValue == Implements(concrete.typ, FALSE, iface.typ)
        byPointer == Implements(concrete.typ, TRUE, iface.typ)
    IN  IF edgeKey \in st.seen THEN st
        ELSE [impl |-> st.impl \o (IF byValue THEN <<edge>> ELSE <<>>)
                               \o (IF byPointer THEN <<edge>> ELSE <<>>),
              seen |-> IF byValue \/ byPointer THEN st.seen \cup {edgeKey} ELSE st.seen]

\* a mutant: only the value method set is tested
checkPairValueOnly(st, concrete, iface) ==
    LET edgeKey == concrete.key \o <<"-", ">">> \o iface.key
    IN  IF edgeKey \in st.seen THEN st
        ELSE IF Implements(concrete.typ, FALSE, iface.typ)
        THEN [impl |-> Append(st.impl, ImplementsEdge(concrete.key, iface.key)),
              seen |-> st.seen \cup {edgeKey}]
        ELSE st

\* the body of the inner loop, for one struct and one interface
checkPair(st, concrete, iface) ==
    LET edgeKey == concrete.key \o <<"-", ">">> \o iface.key
    IN  IF edgeKey \in st.seen THEN st
        ELSE IF Implements(concrete.typ, FALSE, iface.typ)
        THEN [impl |-> Append(st.impl, ImplementsEdge(concrete.key, iface.key)),
              seen |-> st.seen \cup {edgeKey}]
        ELSE IF Implements(concrete.typ, TRUE, iface.typ)
        THEN [impl |-> Append(st.impl, ImplementsEdge(concrete.key, iface.key)),
              seen |-> st.seen \cup {edgeKey}]
        ELSE st

RECURSIVE checkPairs(_, _, _, _)
\* the two nested loops: pair k of the concretes x ifaces grid, row by row
checkPairs(st, concretes, ifaces, k) ==
    IF k > Len(concretes) * Len(ifaces) THEN st
    ELSE checkPairs(checkPair(st, concretes[((k - 1) \div Len(ifaces)) + 1],
                                  ifaces[((k - 1) % Len(ifaces)) + 1]),
                    concretes, ifaces, k + 1)

\* Collector.CollectImplementsFromPackages
CollectImplementsFromPackages(p, col) ==
    LET ifaces == scanTypes(p, col.RootModule, "iface")
        concretes == scanTypes(p, col.RootModule, "struct")
    IN  [col EXCEPT
            !.Implements = checkPairs([impl |-> @, seen |-> {}], concretes, ifaces, 1).impl]

\* NewCollector
NewCollector(rootModule) ==
    [RootModule |-> rootModule, Packages |-> EmptyMap, Structs |-> EmptyMap,
     Interfaces |-> EmptyMap, Funcs |-> EmptyMap, Calls |-> <<>>, Implements |-> <<>>]

\* ------------------------------------------------------------ the Neo4j sink

\* The database is a set of nodes (id, labels, the value of the property the
\* loader merges on, the other properties) and a set of relationships (id,
\* type, endpoints, properties). Ids are taken from a counter, as Neo4j does.

Bare == [bare |-> TRUE]

GoLabels == {"GoPackage", "GoStruct", "GoInterface", "GoFunc"}

GoRelTypes == {"ACCURATE_CALLS", "IMPLEMENTS", "IN_PACKAGE", "HAS_METHOD"}

RECURSIVE SetToSeq(_)
\* the elements of a finite set, each once, in some order
SetToSeq(S) ==
    IF S = {} THEN <<>>
    ELSE LET x == CHOOSE y \in S : TRUE IN <<x>> \o SetToSeq(S \ {x})

\* MATCH (n:label {key})
matchIds(s, label, key) ==
    { n.id : n \in { m \in s.nodes : label \in m.labels /\ m.key = key } }

\* MERGE (n:label {key}): the matching nodes, or a new one when there is none
mergeNode(s, label, key) ==
    IF matchIds(s, label, key) # {} THEN s
    ELSE [s EXCEPT !.nodes = @ \cup {[id |-> s.next, labels |-> {label}, key |-> key,
                                      props |-> Bare]},
                   !.next = @ + 1]

\* SET n.a = ..., n.b = ... on the nodes MERGE bound
setNode(s, label, key, props) ==
    [s EXCEPT !.nodes = { IF label \in n.labels /\ n.key = key
                          THEN [n EXCEPT !.props = props] ELSE n : n \in @ }]

\* a mutant: CREATE (a)-[:type]->(b) in place of MERGE
createRel(s, type, from, to) ==
    [s EXCEPT !.rels = @ \cup {[id |-> s.next, type |-> type, from |-> from,
                                to |-> to, props |-> Bare]},
              !.next = @ + 1]

\* MERGE (a)-[:type]->(b) for one pair of bound nodes
mergeRel(s, type, from, to) ==
    IF \E r \in s.rels : r.type = type /\ r.from = from /\ r.to = to THEN s
    ELSE [s EXCEPT !.rels = @ \cup {[id |-> s.next, type |-> type, from |-> from,
                                     to |-> to, props |-> Bare]},
                   !.next = @ + 1]

RECURSIVE mergeRelPairs(_, _, _)
mergeRelPairs(s, type, pairs) ==
    IF pairs = <<>> THEN s
    ELSE mergeRelPairs(mergeRel(s, type, Head(pairs)[1], Head(pairs)[2]), type,
                       Tail(pairs))

\* MERGE (a)-[:type]->(b) for every pair of the nodes bound to a and to b
mergeRels(s, type, froms, tos) == mergeRelPairs(s, type, SetToSeq(froms \X tos))

\* SET r.a = ... on the relationships MERGE bound
setRels(s, type, froms, tos, props) ==
    [s EXCEPT !.rels = { IF r.type = type /\ r.from \in froms /\ r.to \in tos
                         THEN [r EXCEPT !.props = props] ELSE r : r \in @ }]

\* MERGE (n:label {key}) SET ... WITH n, row MATCH (p:GoPackage {import_path})
\* MERGE (n)-[:IN_PACKAGE]->(p): the statement of LoadStructs, LoadInterfaces
\* and (first) LoadFuncs, for one row
upsertInPackage(s, label, key, props, pkg) ==
    LET s1 == setNode(mergeNode(s, label, key), label, key, props)
    IN  mergeRels(s1, "IN_PACKAGE", matchIds(s1, label, key),
                  matchIds(s1, "GoPackage", pkg))

\* one row of the UNWIND of a loader statement
applyRow(s, stmt, row) ==
    CASE stmt = "package" ->
            setNode(mergeNode(s, "GoPackage", row.ImportPath), "GoPackage",
                    row.ImportPath, [name |-> row.Name, dir |-> row.Dir])
      [] stmt = "struct" ->
            upsertInPackage(s, "GoStruct", row[1],
                            [name |-> row[2].Name, package |-> row[2].Package,
                             file |-> row[2].File, line |-> row[2].Line,
                             exported |-> row[2].Exported,
                             field_count |-> row[2].FieldCount],
                            row[2].Package)
      [] stmt = "interface" ->
            upsertInPackage(s, "GoInterface", row[1],
                            [name |-> row[2].Name, package |-> row[2].Package,
                             file |-> row[2].File, line |-> row[2].Line,
                             exported |-> row[2].Exported,
                             method_count |-> row[2].Methods],
                            row[2].Package)
      [] stmt = "func" ->
            upsertInPackage(s, "GoFunc", row.FullName,
                            [name |-> row.Name, package |-> row.Package,
                             file |-> row.File, line |-> row.Line,
                             exported |-> row.Exported, receiver |-> row.Receiver,
                             is_method |-> row.IsMethod],
                            row.Package)
      [] stmt = "method" ->
            mergeRels(s, "HAS_METHOD",
                      matchIds(s, "GoStruct", row.Package \o Dot \o row.Receiver),
                      matchIds(s, "GoFunc", row.FullName))
      [] stmt = "call" ->
            LET s1 == mergeNode(mergeNode(s, "GoFunc", row.CallerFullName),
                                "GoFunc", row.CalleeFullName)
                froms == matchIds(s1, "GoFunc", row.CallerFullName)
                tos == matchIds(s1, "GoFunc", row.CalleeFullName)
            IN  setRels(mergeRels(s1, "ACCURATE_CALLS", froms, tos),
                        "ACCURATE_CALLS", froms, tos,
                        [is_dynamic |-> row.IsDynamic, site |-> row.Site])
      [] stmt = "implements" ->
            mergeRels(s, "IMPLEMENTS", matchIds(s, "GoStruct", row.Struct),
                      matchIds(s, "GoInterface", row.Interface))

RECURSIVE unwind(_, _, _)
\* UNWIND $batch AS row ...: the statement applied to the rows in batch order
unwind(s, stmt, batch) ==
    IF batch = <<>> THEN s
    ELSE unwind(applyRow(s, stmt, Head(batch)), stmt, Tail(batch))

\* Neo4jLoader.CleanGraph: the four DELETE r statements, then the four
\* DETACH DELETE n statements, which delete a node with all its relationships
CleanGraph(s) ==
    LET rels1 == { r \in s.rels : r.type \notin GoRelTypes }
        gone == { n.id : n \in { m \in s.nodes : m.labels \cap GoLabels # {} } }
    IN  [s EXCEPT !.nodes = { n \in @ : n.id \notin gone },
                  !.rels = { r \in rels1 : r.from \notin gone /\ r.to \notin gone }]

\* Neo4jLoader.CreateIndexes: CREATE INDEX ... IF NOT EXISTS, four times
CreateIndexes(s) ==
    [s EXCEPT !.indexes = @ \cup {"go_pkg_path", "go_func_fullname",
                                  "go_struct_key", "go_iface_key"}]

\* The batch of a map is built by ranging over it; its keys differ, so the
\* rows touch different nodes and the order only decides which ids are drawn.
\* Neo4jLoader.LoadPackages
LoadPackages(s, pkgs) ==
    unwind(s, "package", SetToSeq({ pkgs[k] : k \in DOMAIN pkgs }))

\* Neo4jLoader.LoadStructs
LoadStructs(s, structs) ==
    unwind(s, "struct", SetToSeq({ <<k, structs[k]>> : k \in DOMAIN structs }))

\* Neo4jLoader.LoadInterfaces
LoadInterfaces(s, ifaces) ==
    unwind(s, "interface", SetToSeq({ <<k, ifaces[k]>> : k \in DOMAIN ifaces }))

\* Neo4jLoader.LoadFuncs: the GoFunc statement, then the HAS_METHOD statement
\* when there is a method
LoadFuncs(s, funcs) ==
    LET all == { funcs[k] : k \in DOMAIN funcs }
        s1 == unwind(s, "func", SetToSeq(all))
        methods == { fn \in all : fn.IsMethod /\ fn.Receiver # <<>> }
    IN  IF methods # {} THEN unwind(s1, "method", SetToSeq(methods)) ELSE s1

RECURSIVE unwindCreate(_, _)
unwindCreate(s, batch) ==
    IF batch = <<>> THEN s
    ELSE LET row == Head(batch)
             s1 == mergeNode(mergeNode(s, "GoFunc", row.CallerFullName),
                             "GoFunc", row.CalleeFullName)
             froms == matchIds(s1, "GoFunc", row.CallerFullName)
             tos == matchIds(s1, "GoFunc", row.CalleeFullName)
             s2 == createRel(s1, "ACCURATE_CALLS", CHOOSE i \in froms : TRUE,
                             CHOOSE i \in tos : TRUE)
         IN  unwindCreate(setRels(s2, "ACCURATE_CALLS", froms, tos,
                                  [is_dynamic |-> row.IsDynamic, site |-> row.Site]),
                          Tail(batch))

\* a mutant: the statement CREATEs the relationship where the code MERGEs it
LoadCallsCreate(s, calls) == unwindCreate(s, calls)

\* Neo4jLoader.LoadCalls
LoadCalls(s, calls) == unwind(s, "call", calls)

\* Neo4jLoader.LoadImplements
LoadImplements(s, impls) == unwind(s, "implements", impls)

EmptySink == [nodes |-> {}, rels |-> {}, indexes |-> {}, next |-> 1]

\* ------------------------------------------- the loader, statement by statement

\* MATCH ()-[r:type]->() DELETE r
deleteRels(s, type) == [s EXCEPT !.rels = { r \in @ : r.type # type }]

\* MATCH (n:label) DETACH DELETE n
detachDelete(s, label) ==
    LET gone == { n.id : n \in { m \in s.nodes : label \in m.labels } }
    IN  [s EXCEPT !.nodes = { n \in @ : n.id \notin gone },
                  !.rels = { r \in @ : r.from \notin gone /\ r.to \notin gone }]

\* CREATE INDEX name IF NOT EXISTS ...
createIndex(s, name) == [s EXCEPT !.indexes = @ \cup {name}]

DeleteRels(type) == [kind |-> "deleteRels", arg |-> type, batch |-> <<>>]
DetachDelete(label) == [kind |-> "detachDelete", arg |-> label, batch |-> <<>>]
CreateIndex(name) == [kind |-> "createIndex", arg |-> name, batch |-> <<>>]
Unwind(stmt, batch) == [kind |-> "unwind", arg |-> stmt, batch |-> batch]

\* the queries of CleanGraph, in the order of its slice
cleanQueries ==
    << DeleteRels("ACCURATE_CALLS"), DeleteRels("IMPLEMENTS"),
       DeleteRels("IN_PACKAGE"), DeleteRels("HAS_METHOD"),
       DetachDelete("GoPackage"), DetachDelete("GoFunc"),
       DetachDelete("GoStruct"), DetachDelete("GoInterface") >>

\* the statements of CreateIndexes, in the order of its slice
indexQueries ==
    << CreateIndex("go_pkg_path"), CreateIndex("go_func_fullname"),
       CreateIndex("go_struct_key"), CreateIndex("go_iface_key") >>

\* the statements of LoadFuncs: the GoFunc statement and, when there is a
\* method, the HAS_METHOD statement
funcQueries(funcs) ==
    LET all == { funcs[k] : k \in DOMAIN funcs }
        methods == { fn \in all : fn.IsMethod /\ fn.Receiver # <<>> }
    IN  <<Unwind("func", SetToSeq(all))>>
        \o (IF Cardinality(methods) > 0 THEN <<Unwind("method", SetToSeq(methods))>>
            ELSE <<>>)

\* runCypher, when the statement succeeds: what it does to the database
runCypher(s, q) ==
    CASE q.kind = "deleteRels" -> deleteRels(s, q.arg)
      [] q.kind = "detachDelete" -> detachDelete(s, q.arg)
      [] q.kind = "createIndex" -> createIndex(s, q.arg)
      [] q.kind = "unwind" -> unwind(s, q.arg, q.batch)

\* one call of runCypher as the log of a run records it
Issued(op, i, ok) == [op |-> op, stmt |-> i, ok |-> ok]

RECURSIVE runQueriesIgnoringErr(_, _, _, _, _, _, _)
\* a mutant: the loop goes on after a failed statement
runQueriesIgnoringErr(s, log, op, queries, i, failAt, committed) ==
    IF i > Len(queries) THEN [sink |-> s, issued |-> log, err |-> failAt # 0]
    ELSE runQueriesIgnoringErr(IF i # failAt \/ committed THEN runCypher(s, queries[i])
                               ELSE s,
                               Append(log, Issued(op, i, i # failAt)), op, queries,
                               i + 1, failAt, committed)

RECURSIVE runQueries(_, _, _, _, _, _, _)
\* statements i.. of one loader operation, each through runCypher, with
\* `if err != nil { return err }` after each. Statement failAt fails (none
\* when failAt = 0); the server may or may not have committed it by then.
runQueries(s, log, op, queries, i, failAt, committed) ==
    IF i > Len(queries) THEN [sink |-> s, issued |-> log, err |-> FALSE]
    ELSE IF i = failAt
    THEN [sink |-> IF committed THEN runCypher(s, queries[i]) ELSE s,
          issued |-> Append(log, Issued(op, i, FALSE)), err |-> TRUE]
    ELSE runQueries(runCypher(s, queries[i]), Append(log, Issued(op, i, TRUE)), op,
                    queries, i + 1, failAt, committed)

\* ------------------------------------------------- SpecPrefix: the prefix test

PathAlphabet == {"m", "x", "/"}

\* an import path: non-empty segments separated by single slashes
ValidPath(p) ==
    /\ Len(p) >= 1
    /\ p[1] # "/"
    /\ p[Len(p)] # "/"
    /\ \A i \in 1..(Len(p) - 1) : ~(p[i] = "/" /\ p[i + 1] = "/")

ValidPaths ==
    { p \in UNION { [1..k -> PathAlphabet] : k \in 1..MaxPathLen } : ValidPath(p) }

\* what the placeholder variables of the other specifications hold
Idle == [stage |-> "idle"]

InitPrefix ==
    /\ pfx \in [stage : {"ask"}, root : ValidPaths, path : ValidPaths, ok : {FALSE}]
    /\ kq = Idle /\ prog = Idle /\ clean = FALSE /\ pc = "idle" /\ run = 0
    /\ c = Idle /\ sink = Idle /\ pre = Idle /\ sink0 = Idle /\ sink1 = Idle
    /\ calls1 = <<>>
    /\ ld = Idle

\* one call of c.isProjectPackage(pkgPath) on a Collector with RootModule root
AskIsProjectPackage ==
    /\ pfx.stage = "ask"
    /\ pfx' = [pfx EXCEPT !.stage = "answered",
                          !.ok = isProjectPackage(pfx.root, pfx.path)]
    /\ UNCHANGED <<kq, prog, clean, pc, run, c, sink, pre, sink0, sink1, calls1, ld>>

NextPrefix == AskIsProjectPackage

SpecPrefix == InitPrefix /\ [][NextPrefix]_vars

\* ------------------------------------------------- SpecKeys: the naming scheme

KeyPkgPaths ==
    { <<"m">>, <<"m", "/", "a">>, <<"m", "/", "a", ".", "b">>, <<"m", ".", "b">> }

KeyTypeNames == { <<"b">>, <<"T">> }

KeyFuncNames == { <<"f">>, <<"G">> }

KeyFuncs ==
    { [pkg |-> p, recv |-> NoRecv, ptr |-> FALSE, name |-> n,
       exported |-> IsExported(n)] : p \in KeyPkgPaths, n \in KeyFuncNames }
    \cup
    { [pkg |-> x[1], recv |-> x[2], ptr |-> x[3], name |-> x[4],
       exported |-> IsExported(x[4])] :
          x \in KeyPkgPaths \X KeyTypeNames \X BOOLEAN \X KeyFuncNames }

\* the key under which CollectTypes files a function: a free function is found
\* by the declaration scan of its package's scope, a method by the method scan
\* of its receiver's named type
entityKey(f) ==
    IF f.recv = NoRecv THEN declScanKey(f)
    ELSE methodScanKey(f.pkg, f.recv, f.name)

\* two declarations are the same function when package, receiver and name agree
SameFunc(f, g) == f.pkg = g.pkg /\ f.recv = g.recv /\ f.name = g.name

InitKeys ==
    /\ kq \in { q \in [stage : {"types"}, f : KeyFuncs, g : KeyFuncs,
                       fDecl : {<<>>}, fEnt : {<<>>}, gEnt : {<<>>},
                       fSSA : {<<>>}, gSSA : {<<>>}] :
                  SameFunc(q.f, q.g) => q.f = q.g }
    /\ pfx = Idle /\ prog = Idle /\ clean = FALSE /\ pc = "idle" /\ run = 0
    /\ c = Idle /\ sink = Idle /\ pre = Idle /\ sink0 = Idle /\ sink1 = Idle
    /\ calls1 = <<>>
    /\ ld = Idle

\* the keys CollectTypes computes for f and g
EntityPassKeys ==
    /\ kq.stage = "types"
    /\ kq' = [kq EXCEPT !.stage = "callgraph",
                        !.fDecl = declScanKey(kq.f),
                        !.fEnt = entityKey(kq.f),
                        !.gEnt = entityKey(kq.g)]
    /\ UNCHANGED <<pfx, prog, clean, pc, run, c, sink, pre, sink0, sink1, calls1, ld>>

\* the keys CollectCallGraph computes for the ssa.Functions of f and g
CallGraphPassKeys ==
    /\ kq.stage = "callgraph"
    /\ kq' = [kq EXCEPT !.stage = "done",
                        !.fSSA = buildSSAFuncName(ssaDeclared(kq.f)),
                        !.gSSA = buildSSAFuncName(ssaDeclared(kq.g))]
    /\ UNCHANGED <<pfx, prog, clean, pc, run, c, sink, pre, sink0, sink1, calls1, ld>>

NextKeys == EntityPassKeys \/ CallGraphPassKeys

SpecKeys == InitKeys /\ [][NextKeys]_vars

\* ------------------------------------------------- Spec: main over a program

\* The analysed programs. Package m/a declares
\*     type A struct{ n int }       with no Handle, func (A) Handle() or
\*                                  func (*A) Handle()
\*     type B struct{}              func (*B) Handle(); func (*B) Close()
\*     type Empty interface{}
\*     type Handler interface{ Handle() }   or   { Handle(); Close() }
\*     type b struct{}              func (*b) f()
\*     func Run()                   var x Handler = ...; y := x; h := y;
\*                                  h.Handle(); x.Print(); x.Print();
\*                                  k := x.Print; g := k; g(); func() {}()
\* package m/a.b (when present) declares func f(), and the dependency x
\*     type W struct{}              func (*W) Handle()
\*     func Print()                 calls help
\*     func help()
tA(o) ==
    TypeDecl(PkgApp, <<"A">>, "struct",
             IF o.aHandle = "none" THEN {}
             ELSE {Method(nHandle, o.aHandle = "ptr", 3)}, 1, 2)
tB == TypeDecl(PkgApp, <<"B">>, "struct",
               {Method(nHandle, TRUE, 5), Method(nClose, TRUE, 6)}, 0, 4)
tEmpty == TypeDecl(PkgApp, <<"E", "m", "p", "t", "y">>, "iface", {}, 0, 7)
tHandler(o) ==
    TypeDecl(PkgApp, <<"H", "a", "n", "d", "l", "e", "r">>, "iface",
             IF o.wide THEN {Method(nHandle, FALSE, 9), Method(nClose, FALSE, 10)}
             ELSE {Method(nHandle, FALSE, 9)}, 0, 8)
tb == TypeDecl(PkgApp, <<"b">>, "struct", {Method(nF, TRUE, 12)}, 0, 11)
tW == TypeDecl(PkgExt, <<"W">>, "struct", {Method(nHandle, TRUE, 2)}, 0, 1)

fRun == FuncDecl(PkgApp, nRun, 14)
fPrint == FuncDecl(PkgExt, nPrint, 3)
fHelp == FuncDecl(PkgExt, nHelp, 4)
fDot == FuncDecl(PkgDot, nF, 1)

\* a call instruction of function caller: a static call of callee, or a
\* dynamic call of method on the interface value recv
CallInstr(caller, callee, line, n) ==
    [caller |-> ssaDeclared(caller), mode |-> "call", callee |-> ssaDeclared(callee),
     recv |-> "", method |-> <<>>, file |-> caller.file, line |-> line, n |-> n]

InvokeInstr(caller, recv, method, line, n) ==
    [caller |-> ssaDeclared(caller), mode |-> "invoke", callee |-> ssaDeclared(caller),
     recv |-> recv, method |-> method, file |-> caller.file, line |-> line, n |-> n]

\* a call, on the spot, of the i-th function literal of caller
LiteralCallInstr(caller, i, line, n) ==
    [caller |-> ssaDeclared(caller), mode |-> "call", callee |-> ssaAnon(caller, i),
     recv |-> "", method |-> <<>>, file |-> caller.file, line |-> line, n |-> n]

\* a call of the function value held by the variable recv
ValueInstr(caller, recv, line, n) ==
    [caller |-> ssaDeclared(caller), mode |-> "value", callee |-> ssaDeclared(caller),
     recv |-> recv, method |-> <<>>, file |-> caller.file, line |-> line, n |-> n]

\* the lines of Run's static calls of x.Print: none, one, or two of which the
\* second stands on the same line as the first or on a later one
StaticOptions == { <<>>, <<1>> } \cup { <<1, l>> : l \in 1..MaxLine }

\* the concrete types that may be stored into Run's variable x
AllocOptions(o) ==
    { S \in SUBSET { Concrete(tA(o), FALSE), Concrete(tA(o), TRUE),
                     Concrete(tB, TRUE), Concrete(tW, TRUE) } :
        /\ Cardinality(S) <= MaxAllocs
        /\ \A ct \in S : Implements(IF ct.name = <<"A">> THEN tA(o)
                                    ELSE IF ct.name = <<"B">> THEN tB ELSE tW,
                                    ct.ptr, tHandler(o)) }

Options ==
    { o \in [aHandle : {"none", "val", "ptr"}, wide : BOOLEAN, dot : BOOLEAN,
             fnval : BOOLEAN, anon : BOOLEAN,
             static : StaticOptions,
             allocs : SUBSET { Concrete(tA([aHandle |-> "val"]), FALSE),
                               Concrete(tA([aHandle |-> "val"]), TRUE),
                               Concrete(tB, TRUE), Concrete(tW, TRUE) }] :
        /\ o.allocs \in AllocOptions(o)
        /\ \/ o.static = <<>>
           \/ o.allocs = {}
           \/ (Len(o.static) = 1 /\ Cardinality(o.allocs) = 1)
        /\ o.fnval => (Len(o.static) <= 1 /\ o.allocs = {})
        /\ o.anon => (o.static = <<>> /\ o.allocs = {} /\ ~o.fnval) }

MkProgram(o) ==
    [pkgs |-> <<[PkgPath |-> PkgExt, Name |-> <<"x">>]>>
              \o (IF o.dot THEN <<[PkgPath |-> PkgDot, Name |-> <<"b">>]>> ELSE <<>>)
              \o <<[PkgPath |-> PkgApp, Name |-> <<"a">>]>>,
     types |-> <<tW, tA(o), tB, tEmpty, tHandler(o), tb>>,
     funcs |-> {fPrint, fHelp, fRun} \cup (IF o.dot THEN {fDot} ELSE {}),
     instrs |-> {InvokeInstr(fRun, "h", nHandle, 20, 1), CallInstr(fPrint, fHelp, 3, 1)}
                \cup { CallInstr(fRun, fPrint, o.static[i], i + 1) : i \in DOMAIN o.static }
                \cup (IF o.fnval THEN {ValueInstr(fRun, "g", 21, 4)} ELSE {})
                \cup (IF o.anon THEN {LiteralCallInstr(fRun, 1, 22, 5)} ELSE {}),
     anon |-> IF o.anon THEN {ssaAnon(fRun, 1)} ELSE {},
     allocs |-> { <<"x", ct>> : ct \in o.allocs },
     fnvals |-> IF o.fnval THEN { <<"k", fPrint>> } ELSE {},
     flows |-> { <<"x", "y">>, <<"y", "h">> }
               \cup (IF o.fnval THEN { <<"k", "g">> } ELSE {})]

Programs == { MkProgram(o) : o \in Options }

\* what the database may hold when main starts: nothing, or the graph of
\* another tool (File and Function nodes, CALLS and CONTAINS relationships)
\* next to a GoFunc node of an earlier load, which the other tool's File node
\* CONTAINS
CoexistSink ==
    [nodes |-> { [id |-> 1, labels |-> {"File"}, key |-> FileOf(PkgApp), props |-> Bare],
                 [id |-> 2, labels |-> {"Function"}, key |-> nRun, props |-> Bare],
                 [id |-> 3, labels |-> {"GoFunc"}, key |-> PkgApp \o Dot \o nHelp,
                  props |-> Bare] },
     rels |-> { [id |-> 4, type |-> "CALLS", from |-> 2, to |-> 2, props |-> Bare],
                [id |-> 5, type |-> "CONTAINS", from |-> 1, to |-> 2, props |-> Bare],
                [id |-> 6, type |-> "CONTAINS", from |-> 1, to |-> 3, props |-> Bare],
                [id |-> 7, type |-> "ACCURATE_CALLS", from |-> 3, to |-> 3,
                 props |-> [is_dynamic |-> FALSE, site |-> <<>>]] },
     indexes |-> {},
     next |-> 8]

InitialSinks == {EmptySink, CoexistSink}

Init ==
    /\ pfx = Idle /\ kq = Idle
    /\ prog \in Programs
    /\ clean \in BOOLEAN
    /\ pc = "types"
    /\ run = 1
    /\ c = NewCollector(ModRoot)
    /\ sink \in InitialSinks
    /\ pre = sink
    /\ sink0 = sink
    /\ sink1 = EmptySink
    /\ calls1 = <<>>
    /\ ld = Idle

\* collector.CollectTypes(pkgs)
DoCollectTypes ==
    /\ pc = "types"
    /\ c' = CollectTypes(prog, c)
    /\ pc' = "callgraph"
    /\ UNCHANGED <<pfx, kq, prog, clean, run, sink, pre, sink0, sink1, calls1, ld>>

\* collector.CollectCallGraph(pkgs)
DoCollectCallGraph ==
    /\ pc = "callgraph"
    /\ \E order \in VisitOrders(c.RootModule, VTAEdges(prog)) :
           c' = visitEdges(c, order)
    /\ pc' = "implements"
    /\ UNCHANGED <<pfx, kq, prog, clean, run, sink, pre, sink0, sink1, calls1, ld>>

\* collector.CollectImplementsFromPackages(pkgs), then NewNeo4jLoader
DoCollectImplements ==
    /\ pc = "implements"
    /\ c' = CollectImplementsFromPackages(prog, c)
    /\ pc' = IF clean THEN "clean" ELSE "indexes"
    /\ UNCHANGED <<pfx, kq, prog, clean, run, sink, pre, sink0, sink1, calls1, ld>>

\* loader.CleanGraph(), when --clean is given
DoCleanGraph ==
    /\ pc = "clean"
    /\ pre' = sink
    /\ sink' = CleanGraph(sink)
    /\ pc' = "indexes"
    /\ UNCHANGED <<pfx, kq, prog, clean, run, c, sink0, sink1, calls1, ld>>

\* loader.CreateIndexes()
DoCreateIndexes ==
    /\ pc = "indexes"
    /\ pre' = sink
    /\ sink' = CreateIndexes(sink)
    /\ pc' = "packages"
    /\ UNCHANGED <<pfx, kq, prog, clean, run, c, sink0, sink1, calls1, ld>>

\* loader.LoadPackages(collector.Packages)
DoLoadPackages ==
    /\ pc = "packages"
    /\ pre' = sink
    /\ sink' = LoadPackages(sink, c.Packages)
    /\ pc' = "structs"
    /\ UNCHANGED <<pfx, kq, prog, clean, run, c, sink0, sink1, calls1, ld>>

\* loader.LoadStructs(collector.Structs)
DoLoadStructs ==
    /\ pc = "structs"
    /\ pre' = sink
    /\ sink' = LoadStructs(sink, c.Structs)
    /\ pc' = "interfaces"
    /\ UNCHANGED <<pfx, kq, prog, clean, run, c, sink0, sink1, calls1, ld>>

\* loader.LoadInterfaces(collector.Interfaces)
DoLoadInterfaces ==
    /\ pc = "interfaces"
    /\ pre' = sink
    /\ sink' = LoadInterfaces(sink, c.Interfaces)
    /\ pc' = "funcs"
    /\ UNCHANGED <<pfx, kq, prog, clean, run, c, sink0, sink1, calls1, ld>>

\* loader.LoadFuncs(collector.Funcs)
DoLoadFuncs ==
    /\ pc = "funcs"
    /\ pre' = sink
    /\ sink' = LoadFuncs(sink, c.Funcs)
    /\ pc' = "calls"
    /\ UNCHANGED <<pfx, kq, prog, clean, run, c, sink0, sink1, calls1, ld>>

\* loader.LoadCalls(collector.Calls)
DoLoadCalls ==
    /\ pc = "calls"
    /\ pre' = sink
    /\ sink' = LoadCalls(sink, c.Calls)
    /\ pc' = "impls"
    /\ UNCHANGED <<pfx, kq, prog, clean, run, c, sink0, sink1, calls1, ld>>

\* loader.LoadImplements(collector.Implements)
DoLoadImplements ==
    /\ pc = "impls"
    /\ pre' = sink
    /\ sink' = LoadImplements(sink, c.Implements)
    /\ pc' = "done"
    /\ UNCHANGED <<pfx, kq, prog, clean, run, c, sink0, sink1, calls1, ld>>

\* main is run again over the unchanged project, with or without --clean
Rerun ==
    /\ pc = "done"
    /\ run < MaxRuns
    /\ run' = run + 1
    /\ clean' \in BOOLEAN
    /\ c' = NewCollector(ModRoot)
    /\ pc' = "types"
    /\ sink1' = sink
    /\ calls1' = c.Calls
    /\ UNCHANGED <<pfx, kq, prog, sink, pre, sink0, ld>>

Next ==
    \/ DoCollectTypes
    \/ DoCollectCallGraph
    \/ DoCollectImplements
    \/ DoCleanGraph
    \/ DoCreateIndexes
    \/ DoLoadPackages
    \/ DoLoadStructs
    \/ DoLoadInterfaces
    \/ DoLoadFuncs
    \/ DoLoadCalls
    \/ DoLoadImplements
    \/ Rerun

Spec == Init /\ [][Next]_vars

\* ------------------------------- SpecLoad: main's loader calls, any of which fails

\* a project of one package that declares functions only
FuncsOnly ==
    [pkgs |-> <<[PkgPath |-> PkgApp, Name |-> <<"a">>]>>,
     types |-> <<>>,
     funcs |-> {fRun},
     instrs |-> {},
     anon |-> {},
     allocs |-> {},
     fnvals |-> {},
     flows |-> {}]

LoadPrograms == Programs \cup {FuncsOnly}

InitLoad ==
    /\ pfx = Idle /\ kq = Idle
    /\ prog \in LoadPrograms
    /\ clean \in BOOLEAN
    /\ pc = "collect"
    /\ run = 1
    /\ c = NewCollector(ModRoot)
    /\ sink \in InitialSinks
    /\ pre = sink
    /\ sink0 = sink
    /\ sink1 = EmptySink
    /\ calls1 = <<>>
    /\ ld = [issued |-> <<>>, err |-> FALSE]

\* the three collector calls of main, then NewNeo4jLoader
CollectAll ==
    /\ pc = "collect"
    /\ \E order \in VisitOrders(c.RootModule, VTAEdges(prog)) :
           c' = CollectImplementsFromPackages(prog,
                    visitEdges(CollectTypes(prog, c), order))
    /\ pc' = IF clean THEN "clean" ELSE "indexes"
    /\ UNCHANGED <<pfx, kq, prog, clean, run, sink, pre, sink0, sink1, calls1, ld>>

\* loader.CleanGraph(), when --clean is given; log.Fatal when it returns an error
CallCleanGraph ==
    /\ pc = "clean"
    /\ LET queries == cleanQueries
       IN  \E failAt \in 0..Len(queries), committed \in BOOLEAN :
               LET r == runQueries(sink, ld.issued, "CleanGraph", queries, 1, failAt,
                                   committed)
               IN  /\ sink' = r.sink
                   /\ ld' = [issued |-> r.issued, err |-> r.err]
                   /\ pc' = IF r.err THEN "fatal" ELSE "indexes"
    /\ pre' = sink
    /\ UNCHANGED <<pfx, kq, prog, clean, run, c, sink0, sink1, calls1>>

\* loader.CreateIndexes(); log.Fatal when it returns an error
CallCreateIndexes ==
    /\ pc = "indexes"
    /\ LET queries == indexQueries
       IN  \E failAt \in 0..Len(queries), committed \in BOOLEAN :
               LET r == runQueries(sink, ld.issued, "CreateIndexes", queries, 1, failAt,
                                   committed)
               IN  /\ sink' = r.sink
                   /\ ld' = [issued |-> r.issued, err |-> r.err]
                   /\ pc' = IF r.err THEN "fatal" ELSE "packages"
    /\ pre' = sink
    /\ UNCHANGED <<pfx, kq, prog, clean, run, c, sink0, sink1, calls1>>

\* loader.LoadPackages(collector.Packages); log.Fatal when it returns an error
CallLoadPackages ==
    /\ pc = "packages"
    /\ LET queries == <<Unwind("package", SetToSeq({ c.Packages[k] : k \in DOMAIN c.Packages }))>>
       IN  \E failAt \in 0..Len(queries), committed \in BOOLEAN :
               LET r == runQueries(sink, ld.issued, "LoadPackages", queries, 1, failAt,
                                   committed)
               IN  /\ sink' = r.sink
                   /\ ld' = [issued |-> r.issued, err |-> r.err]
                   /\ pc' = IF r.err THEN "fatal" ELSE "structs"
    /\ pre' = sink
    /\ UNCHANGED <<pfx, kq, prog, clean, run, c, sink0, sink1, calls1>>

\* loader.LoadStructs(collector.Structs); log.Fatal when it returns an error
CallLoadStructs ==
    /\ pc = "structs"
    /\ LET queries == <<Unwind("struct", SetToSeq({ <<k, c.Structs[k]>> : k \in DOMAIN c.Structs }))>>
       IN  \E failAt \in 0..Len(queries), committed \in BOOLEAN :
               LET r == runQueries(sink, ld.issued, "LoadStructs", queries, 1, failAt,
                                   committed)
               IN  /\ sink' = r.sink
                   /\ ld' = [issued |-> r.issued, err |-> r.err]
                   /\ pc' = IF r.err THEN "fatal" ELSE "interfaces"
    /\ pre' = sink
    /\ UNCHANGED <<pfx, kq, prog, clean, run, c, sink0, sink1, calls1>>

\* loader.LoadInterfaces(collector.Interfaces); log.Fatal when it returns an error
CallLoadInterfaces ==
    /\ pc = "interfaces"
    /\ LET queries == <<Unwind("interface", SetToSeq({ <<k, c.Interfaces[k]>> : k \in DOMAIN c.Interfaces }))>>
       IN  \E failAt \in 0..Len(queries), committed \in BOOLEAN :
               LET r == runQueries(sink, ld.issued, "LoadInterfaces", queries, 1, failAt,
                                   committed)
               IN  /\ sink' = r.sink
                   /\ ld' = [issued |-> r.issued, err |-> r.err]
                   /\ pc' = IF r.err THEN "fatal" ELSE "funcs"
    /\ pre' = sink
    /\ UNCHANGED <<pfx, kq, prog, clean, run, c, sink0, sink1, calls1>>

\* loader.LoadFuncs(collector.Funcs); log.Fatal when it returns an error
CallLoadFuncs ==
    /\ pc = "funcs"
    /\ LET queries == funcQueries(c.Funcs)
       IN  \E failAt \in 0..Len(queries), committed \in BOOLEAN :
               LET r == runQueries(sink, ld.issued, "LoadFuncs", queries, 1, failAt,
                                   committed)
               IN  /\ sink' = r.sink
                   /\ ld' = [issued |-> r.issued, err |-> r.err]
                   /\ pc' = IF r.err THEN "fatal" ELSE "calls"
    /\ pre' = sink
    /\ UNCHANGED <<pfx, kq, prog, clean, run, c, sink0, sink1, calls1>>

\* loader.LoadCalls(collector.Calls); log.Fatal when it returns an error
CallLoadCalls ==
    /\ pc = "calls"
    /\ LET queries == <<Unwind("call", c.Calls)>>
       IN  \E failAt \in 0..Len(queries), committed \in BOOLEAN :
               LET r == runQueries(sink, ld.issued, "LoadCalls", queries, 1, failAt,
                                   committed)
               IN  /\ sink' = r.sink
                   /\ ld' = [issued |-> r.issued, err |-> r.err]
                   /\ pc' = IF r.err THEN "fatal" ELSE "impls"
    /\ pre' = sink
    /\ UNCHANGED <<pfx, kq, prog, clean, run, c, sink0, sink1, calls1>>

\* loader.LoadImplements(collector.Implements); log.Fatal when it returns an error
CallLoadImplements ==
    /\ pc = "impls"
    /\ LET queries == <<Unwind("implements", c.Implements)>>
       IN  \E failAt \in 0..Len(queries), committed \in BOOLEAN :
               LET r == runQueries(sink, ld.issued, "LoadImplements", queries, 1, failAt,
                                   committed)
               IN  /\ sink' = r.sink
                   /\ ld' = [issued |-> r.issued, err |-> r.err]
                   /\ pc' = IF r.err THEN "fatal" ELSE "done"
    /\ pre' = sink
    /\ UNCHANGED <<pfx, kq, prog, clean, run, c, sink0, sink1, calls1>>

NextLoad ==
    \/ CollectAll
    \/ CallCleanGraph
    \/ CallCreateIndexes
    \/ CallLoadPackages
    \/ CallLoadStructs
    \/ CallLoadInterfaces
    \/ CallLoadFuncs
    \/ CallLoadCalls
    \/ CallLoadImplements

SpecLoad == InitLoad /\ [][NextLoad]_vars

\* ------------------------- SpecOrder: LoadCalls on one batch in two orders

\* CallEdges as CollectCallGraph appends them: Run calls x.Print or B.Handle,
\* directly or through an interface, at a line of Run's file
BatchEdges ==
    { CallEdge(buildSSAFuncName(ssaDeclared(fRun)), callee, dynamic,
               relPath(ModRoot, fRun.file) \o <<":">> \o Itoa(line)) :
        <<callee, dynamic, line>> \in
            { buildSSAFuncName(ssaDeclared(fPrint)),
              buildSSAFuncName(ssaDeclared(MethodDecl(tB, Method(nHandle, TRUE, 5)))) }
            \X BOOLEAN \X (1..MaxLine) }

\* the values Calls may have: up to MaxBatch edges in some order
Batches == UNION { [1..n -> BatchEdges] : n \in 0..MaxBatch }

\* the orders in which GraphVisitEdges may have appended the edges of batch
BatchOrders(batch) ==
    { [i \in DOMAIN batch |-> batch[s[i]]] : s \in Orders(DOMAIN batch) }

InitOrder ==
    /\ pfx = Idle /\ kq = Idle /\ prog = Idle /\ ld = Idle
    /\ clean = FALSE
    /\ run = 0
    /\ pc = "calls"
    /\ \E batch \in Batches :
           /\ c = [NewCollector(ModRoot) EXCEPT !.Calls = batch]
           /\ calls1 \in BatchOrders(batch)
    /\ sink \in InitialSinks
    /\ sink1 = sink
    /\ pre = sink
    /\ sink0 = sink

\* loader.LoadCalls on the batch (into sink) and on the same edges in another
\* order (into sink1), both from the same database
LoadCallsInBothOrders ==
    /\ pc = "calls"
    /\ sink' = LoadCalls(sink, c.Calls)
    /\ sink1' = LoadCalls(sink1, calls1)
    /\ pc' = "done"
    /\ UNCHANGED <<pfx, kq, prog, clean, run, c, pre, sink0, calls1, ld>>

NextOrder == LoadCallsInBothOrders

SpecOrder == InitOrder /\ [][NextOrder]_vars

\* ------------------------------------------------------------------ claims

\* the project namespace as the specification words it: the prefix itself or a
\* continuation of it at a path-segment boundary
UnderNamespace(root, path) ==
    \/ path = root
    \/ /\ Len(path) > Len(root)
       /\ SubSeq(path, 1, Len(root)) = root
       /\ path[Len(root) + 1] = "/"

\* C6: isProjectPackage accepts a package path exactly when it equals the
\* project prefix or continues it at a path-segment boundary.
C6_ExactPathPrefix ==
    pfx.stage = "answered" => (pfx.ok <=> UnderNamespace(pfx.root, pfx.path))

\* C2: for any one function or method, the key of the declaration scan and the
\* key of the named-type method scan equal the key buildSSAFuncName computes.
C2_CrossPassKeyAgreement ==
    kq.stage = "done" =>
        /\ kq.fDecl = kq.fSSA
        /\ kq.fEnt = kq.fSSA
        /\ kq.gEnt = kq.gSSA

C2_Witness ==
    /\ kq.stage = "done"
    /\ kq.f.recv # NoRecv /\ kq.f.ptr
    /\ kq.fEnt = methodScanKey(kq.f.pkg, kq.f.recv, kq.f.name)
    /\ kq.fEnt = kq.fSSA
    /\ kq.g.recv = NoRecv
    /\ kq.gEnt = kq.gSSA

\* C3: any two distinct functions or methods get different keys, whatever the
\* import path, receiver type name and function name are.
C3_KeysDiffer ==
    (kq.stage = "done" /\ ~SameFunc(kq.f, kq.g)) =>
        (kq.fEnt # kq.gEnt /\ kq.fSSA # kq.gSSA)

\* the key the naming scheme gives: "<pkg>.<name>" or "<pkg>.<receiver>.<name>"
SchemeKey(pkg, recv, name) ==
    IF recv = NoRecv THEN pkg \o Dot \o name ELSE pkg \o Dot \o recv \o Dot \o name

RECURSIVE FlowSources(_, _)
\* the flow nodes from which a value can reach one of the nodes of seen
FlowSources(p, seen) ==
    LET more == seen \cup { f[1] : f \in { g \in p.flows : g[2] \in seen } }
    IN  IF more = seen THEN seen ELSE FlowSources(p, more)

\* the concrete types a flow node may hold at run time
MayHold(p, v) ==
    { a[2] : a \in { b \in p.allocs : b[1] \in FlowSources(p, {v}) } }

Collected == pc \notin {"idle", "types", "callgraph"}

HasCall(caller, callee) ==
    \E k \in DOMAIN c.Calls :
        /\ c.Calls[k].CallerFullName = caller
        /\ c.Calls[k].CalleeFullName = callee

\* C1: for every call through an interface value and every concrete type that
\* may flow into the value and provides the method, Calls holds an edge from
\* the caller to that type's method (one endpoint being in the project).
C1_DynamicSoundness ==
    Collected =>
        \A i \in { j \in prog.instrs : j.mode = "invoke" } :
            \A ct \in MayHold(prog, i.recv) :
                ( /\ Provides(prog, ct, i.method)
                  /\ \/ UnderNamespace(c.RootModule, i.caller.Pkg)
                     \/ UnderNamespace(c.RootModule, ct.pkg) )
                => HasCall(SchemeKey(i.caller.Pkg, i.caller.recv, i.caller.name),
                           SchemeKey(ct.pkg, ct.name, i.method))

ImplementsDone == pc \notin {"idle", "types", "callgraph", "implements"}

ProjectTypes(kind) ==
    { t \in TypesOf(prog) : t.kind = kind /\ UnderNamespace(c.RootModule, t.pkg) }

HasImplements(t, i) ==
    \E k \in DOMAIN c.Implements :
        c.Implements[k] = [Struct |-> SchemeKey(t.pkg, NoRecv, t.name),
                           Interface |-> SchemeKey(i.pkg, NoRecv, i.name)]

ValueMethods(t) == { m.name : m \in { x \in t.methods : ~x.ptr } }

PointerMethods(t) == { m.name : m \in t.methods }

InterfaceMethods(i) == { m.name : m \in i.methods }

\* C4: after CollectImplementsFromPackages, Implements holds (S, I) for a
\* project struct S and a project interface I exactly when I has a method and
\* S's value method set or *S's method set includes I's method set.
C4_ImplementsCharacterisation ==
    ImplementsDone =>
        \A t \in ProjectTypes("struct") : \A i \in ProjectTypes("iface") :
            HasImplements(t, i) <=>
                /\ InterfaceMethods(i) # {}
                /\ \/ InterfaceMethods(i) \subseteq ValueMethods(t)
                   \/ InterfaceMethods(i) \subseteq PointerMethods(t)

\* a struct that satisfies an interface by its pointer method set only has its
\* edge, a struct that lacks a method has none, and the empty interface none
C4_Witness ==
    /\ ImplementsDone
    /\ \E t \in ProjectTypes("struct") : \E i \in ProjectTypes("iface") :
          /\ HasImplements(t, i)
          /\ ~(InterfaceMethods(i) \subseteq ValueMethods(t))
    /\ \E t \in ProjectTypes("struct") : \E i \in ProjectTypes("iface") :
          /\ HasImplements(t, i)
          /\ InterfaceMethods(i) \subseteq ValueMethods(t)
    /\ \E t \in ProjectTypes("struct") : \E i \in ProjectTypes("iface") :
          InterfaceMethods(i) # {} /\ ~HasImplements(t, i)
    /\ \E i \in ProjectTypes("iface") : InterfaceMethods(i) = {}

\* C5: Implements never holds two edges with the same struct key and
\* interface key.
C5_OneEdgePerPair ==
    ImplementsDone =>
        \A j, k \in DOMAIN c.Implements :
            ( /\ c.Implements[j].Struct = c.Implements[k].Struct
              /\ c.Implements[j].Interface = c.Implements[k].Interface ) => j = k

\* both ways of satisfying occur: by the value method set (then the pointer's
\* satisfies too) and by the pointer method set only
C5_Witness ==
    /\ ImplementsDone
    /\ \E t \in ProjectTypes("struct") : \E i \in ProjectTypes("iface") :
          /\ HasImplements(t, i)
          /\ InterfaceMethods(i) \subseteq ValueMethods(t)
          /\ InterfaceMethods(i) \subseteq PointerMethods(t)
    /\ \E t \in ProjectTypes("struct") : \E i \in ProjectTypes("iface") :
          /\ HasImplements(t, i)
          /\ ~(InterfaceMethods(i) \subseteq ValueMethods(t))
          /\ Cardinality({ k \in DOMAIN c.Implements :
                             c.Implements[k].Struct = SchemeKey(t.pkg, NoRecv, t.name) }) = 1

GoNodes(s) == { n \in s.nodes : n.labels \cap GoLabels # {} }

\* the package of the code a Go* node stands for is under the project
\* namespace: a package's import path, a type's package, and for a function
\* the package of every function of the program that has the node's key
NodeInProject(n) ==
    /\ "GoPackage" \in n.labels => UnderNamespace(c.RootModule, n.key)
    /\ (n.labels \cap {"GoStruct", "GoInterface"} # {}) =>
           UnderNamespace(c.RootModule, n.props.package)
    /\ "GoFunc" \in n.labels =>
           \A fn \in { f \in AllFunctions(prog) : f.Pkg # NoPkg } :
               buildSSAFuncName(fn) = n.key => UnderNamespace(c.RootModule, fn.Pkg)

\* C7: after the whole pipeline on an initially empty sink, every GoPackage,
\* GoStruct, GoInterface and GoFunc node belongs to a package under the
\* project namespace.
C7_OnlyProjectNodes ==
    (pc = "done" /\ run = 1 /\ sink0 = EmptySink) =>
        \A n \in GoNodes(sink) : NodeInProject(n)

HandedOff == pc \in {"clean", "indexes", "packages", "structs", "interfaces",
                     "funcs", "calls", "impls", "done"}

\* C8: when main hands the collections to the loader, no collection holds two
\* records with the same key; Calls holds no two CallEdges with the same
\* (caller, callee, site).
C8_DeduplicatedHandoff ==
    HandedOff =>
        /\ \A j, k \in DOMAIN c.Calls :
              ( /\ c.Calls[j].CallerFullName = c.Calls[k].CallerFullName
                /\ c.Calls[j].CalleeFullName = c.Calls[k].CalleeFullName
                /\ c.Calls[j].Site = c.Calls[k].Site ) => j = k
        /\ \A j, k \in DOMAIN c.Implements :
              c.Implements[j] = c.Implements[k] => j = k

\* C9: CleanGraph removes the nodes of the four labels and the relationships
\* of the four types and nothing else: every other node and every
\* relationship of another type is still there afterwards.
C9_CleanGraphFrame ==
    (pc = "indexes" /\ clean) =>
        /\ GoNodes(sink) = {}
        /\ \A r \in sink.rels : r.type \notin GoRelTypes
        /\ \A n \in pre.nodes : n.labels \cap GoLabels = {} => n \in sink.nodes
        /\ \A r \in pre.rels : r.type \notin GoRelTypes => r \in sink.rels

\* a node or relationship without its properties
NodeIdentity(n) == [id |-> n.id, labels |-> n.labels, key |-> n.key]

RelIdentity(r) == [id |-> r.id, type |-> r.type, from |-> r.from, to |-> r.to]

\* C10: a further run of the load sequence without --clean leaves the sink
\* with the nodes and relationships of the run before, none duplicated; with
\* the same collections in the same order, their properties are the same too.
C10_RerunIdempotent ==
    (pc = "done" /\ run > 1 /\ ~clean) =>
        /\ { NodeIdentity(n) : n \in sink.nodes } = { NodeIdentity(n) : n \in sink1.nodes }
        /\ { RelIdentity(r) : r \in sink.rels } = { RelIdentity(r) : r \in sink1.rels }
        /\ sink.nodes = sink1.nodes
        /\ c.Calls = calls1 => sink.rels = sink1.rels

\* a second run that loaded functions, calls (two of them) and implements
\* edges again
C10_Witness ==
    /\ pc = "done" /\ run > 1 /\ ~clean /\ c.Calls = calls1
    /\ Len(c.Calls) >= 2
    /\ Len(c.Implements) >= 1
    /\ \E r \in sink.rels : r.type = "ACCURATE_CALLS" /\ r.props # Bare
    /\ \E r \in sink.rels : r.type = "HAS_METHOD"
    /\ sink.nodes = sink1.nodes
    /\ sink.rels = sink1.rels

\* main's loader operations, in the order main calls them
MainOrder ==
    << "CleanGraph", "CreateIndexes", "LoadPackages", "LoadStructs",
       "LoadInterfaces", "LoadFuncs", "LoadCalls", "LoadImplements" >>

OpIndex(op) == CHOOSE i \in DOMAIN MainOrder : MainOrder[i] = op

\* C11: a sink error is fatal. When a statement of a loader operation fails,
\* it is the last statement the run issues (no later statement of the same
\* operation, no later operation), main has stopped, no statement is issued a
\* second time, and the statements were issued in main's order.
C11_SinkErrorFatal ==
    ld # Idle =>
        /\ \A i \in DOMAIN ld.issued :
               ~ld.issued[i].ok => (i = Len(ld.issued) /\ pc = "fatal")
        /\ (pc = "fatal") <=> ld.err
        /\ ld.err <=> (ld.issued # <<>> /\ ~ld.issued[Len(ld.issued)].ok)
        /\ pc = "fatal" => ~ENABLED NextLoad
        /\ \A i, j \in DOMAIN ld.issued :
               i < j =>
                   \/ OpIndex(ld.issued[i].op) < OpIndex(ld.issued[j].op)
                   \/ /\ ld.issued[i].op = ld.issued[j].op
                      /\ ld.issued[i].stmt < ld.issued[j].stmt

\* the GoFunc statement of LoadFuncs failed after CleanGraph, CreateIndexes and
\* three loads had succeeded: the HAS_METHOD statement was not issued
C11_Witness ==
    /\ ld # Idle
    /\ pc = "fatal"
    /\ clean
    /\ Len(ld.issued) = 16
    /\ ld.issued[16] = Issued("LoadFuncs", 1, FALSE)
    /\ \E k \in DOMAIN c.Funcs : c.Funcs[k].IsMethod

\* without a failure the statements of an operation do what the operation does
LoadAgrees ==
    (ld # Idle /\ pc # "collect") =>
        /\ runQueries(sink, <<>>, "CleanGraph", cleanQueries, 1, 0, FALSE).sink
               = CleanGraph(sink)
        /\ runQueries(sink, <<>>, "CreateIndexes", indexQueries, 1, 0, FALSE).sink
               = CreateIndexes(sink)
        /\ runQueries(sink, <<>>, "LoadFuncs", funcQueries(c.Funcs), 1, 0, FALSE).sink
               = LoadFuncs(sink, c.Funcs)

\* the call-graph edges that pass the guards of the edge callback
KeptEdges == { e \in VTAEdges(prog) : keepsEdge(c.RootModule, e) }

\* the callee of edge e was found by propagating types or function values to
\* the call's operand, not read off the call instruction
ByPropagation(p, e) ==
    \E j \in p.instrs : j.caller = e.caller /\ j.n = e.n /\ j.mode # "call"

\* the CallEdge of e whose flag says how e was resolved
FlaggedEdge(e) ==
    CallEdge(buildSSAFuncName(e.caller), buildSSAFuncName(e.callee),
             ByPropagation(prog, e), siteString(c.RootModule, e))

\* C12: IsDynamic is true exactly for the edges resolved by propagation: Calls
\* holds, as often as the call graph has them, the CallEdges whose flag is
\* TRUE for an edge resolved by propagation and FALSE for a static call.
C12_DynamicIffPropagated ==
    (Collected /\ pc # "collect") =>
        \A t \in { FlaggedEdge(e) : e \in KeptEdges } \cup Range(c.Calls) :
            Cardinality({ k \in DOMAIN c.Calls : c.Calls[k] = t })
                = Cardinality({ e \in KeptEdges : FlaggedEdge(e) = t })

\* Funcs as CollectTypes left it
FuncsBefore == CollectTypes(prog, NewCollector(ModRoot)).Funcs

\* the functions at the ends of the edges that pass the guards
Endpoints == { e.caller : e \in KeptEdges } \cup { e.callee : e \in KeptEdges }

\* C13: when CollectCallGraph has returned, every key of Calls is the key of an endpoint of
\* a kept edge, the key of every endpoint in a project package is a key of
\* Funcs, every entry CollectTypes made is as it was, and every other entry is
\* the minimal FuncNode of an endpoint: its name, key and package, the
\* exported flag of its object, an empty file and line 0.
C13_EndpointsResolvable ==
    pc = "implements" =>
        LET ends == Endpoints
            before == FuncsBefore
        IN  /\ \A k \in DOMAIN c.Calls :
                   /\ \E fn \in ends : buildSSAFuncName(fn) = c.Calls[k].CallerFullName
                   /\ \E fn \in ends : buildSSAFuncName(fn) = c.Calls[k].CalleeFullName
            /\ \A fn \in ends :
                   isProjectPackage(c.RootModule, fn.Pkg)
                       => buildSSAFuncName(fn) \in DOMAIN c.Funcs
            /\ \A key \in DOMAIN before :
                   key \in DOMAIN c.Funcs /\ c.Funcs[key] = before[key]
            /\ \A key \in DOMAIN c.Funcs \ DOMAIN before :
                   \E fn \in ends :
                       /\ buildSSAFuncName(fn) = key
                       /\ c.Funcs[key].Name = fn.name
                       /\ c.Funcs[key].FullName = key
                       /\ c.Funcs[key].Package = fn.Pkg
                       /\ c.Funcs[key].Exported = fn.exported
                       /\ c.Funcs[key].File = <<>>
                       /\ c.Funcs[key].Line = 0

\* Run calls a function literal: Run is an entry of CollectTypes, Run$1 is
\* first seen in the call-graph pass
C13_Witness ==
    /\ pc = "implements"
    /\ DOMAIN c.Funcs \ DOMAIN FuncsBefore # {}
    /\ \E k \in DOMAIN c.Calls :
           /\ c.Calls[k].CallerFullName \in DOMAIN FuncsBefore
           /\ c.Calls[k].CalleeFullName \notin DOMAIN FuncsBefore
           /\ c.Calls[k].CalleeFullName \in DOMAIN c.Funcs

\* the ACCURATE_CALLS relationships of a database: the keys of the two
\* functions and the properties
CallRels(s) ==
    { [caller |-> (CHOOSE n \in s.nodes : n.id = r.from).key,
       callee |-> (CHOOSE n \in s.nodes : n.id = r.to).key,
       props |-> r.props] :
        r \in { x \in s.rels : x.type = "ACCURATE_CALLS" } }

\* C14: LoadCalls on two orders of the same CallEdges, from the same database,
\* leaves the same ACCURATE_CALLS relationships with the same is_dynamic and
\* site properties.
C14_OrderIndependent ==
    (pc = "done" /\ run = 0) => CallRels(sink) = CallRels(sink1)
====
